---- MODULE Spec2Model ----
(***************************************************************************)
(* The HubSpot extraction engine of source_hubspot/api.py: the credential  *)
(* store (API._add_auth, API.access_token, the token refresh), the HTTP    *)
(* client (API.get, API.post, API._parse_and_handle_errors), the backoff   *)
(* decorator retry_after_handler, the pagination generator StreamAPI.read   *)
(* and the time-chunked reader StreamAPI.read_chunked, driven by a         *)
(* consumer that pulls one record at a time.                               *)
(*                                                                         *)
(* An optional value (a mapping key that may be missing, a Python None) is *)
(* a sequence of length 0 or 1: <<>> is "absent", <<v>> is "present, v".   *)
(***************************************************************************)
EXTENDS Integers, Sequences, FiniteSets, TLC

\* ---------------------------------------------------------------- bounds
MaxPages == 2      \* getter calls one read may make
MaxRecs == 2       \* records in one page
MaxClock == 2      \* the clock stops advancing here
MaxWindows == 3    \* windows one read_chunked may issue

\* ------------------------------------------------------ program constants
max_tries == 3     \* @retry_after_handler(max_tries=3)
interval == 0      \* backoff.constant interval
margin == 600      \* timedelta(seconds=auth["expires_in"] - 600)
chunk_size == 86400000   \* 1000 * 60 * 60 * 24

Some(v) == <<v>>
Nothing == <<>>

\* ------------------------------------------------------- stream catalog
\* The class attributes of StreamAPI and of some of its subclasses, with what
\* their list() hands to read: the `archived` param of CRMObjectsAPI.list,
\* whether list() goes through read_chunked, and the instance's _start_date
\* (in milliseconds, counted from the moment the clock `now` starts at).
StreamAPI ==
    [entity |-> Nothing, more_key |-> Nothing, data_path |-> "results",
     page_filter |-> "offset", page_field |-> "offset", limit |-> 100,
     archived |-> Nothing, chunked |-> FALSE, start_date |-> 0]

OwnersAPI == [StreamAPI EXCEPT !.data_path = "results"]

ContactsAPI ==
    [StreamAPI EXCEPT !.entity = Some("contact"), !.data_path = "results",
                      !.archived = Some("false")]

EngagementsAPI ==
    [StreamAPI EXCEPT !.entity = Some("engagement"), !.data_path = "results",
                      !.more_key = Some("hasMore"), !.limit = 250]

Streams == {OwnersAPI, ContactsAPI, EngagementsAPI}

EmailEventsAPI ==
    [StreamAPI EXCEPT !.data_path = "events", !.more_key = Some("hasMore"),
                      !.limit = 1000, !.chunked = TRUE]

\* The start dates of a chunked stream: one chunk in the future, now, and in
\* the past by MaxWindows - 1 chunks, with and without another half chunk.
StartDates ==
    {chunk_size, 0, -((MaxWindows - 1) * chunk_size),
     -(((2 * MaxWindows - 1) * chunk_size) \div 2)}

ChunkedStreams == {[EmailEventsAPI EXCEPT !.start_date = d] : d \in StartDates}

\* ------------------------------------------------------------ responses
ParamKeys ==
    {"limit", "properties", "archived", "after", "offset", "hapikey",
     "startTimestamp", "endTimestamp"}
NoParams == [k \in ParamKeys |-> Nothing]

\* The params mappings a caller hands to read_chunked: none, or one of its own.
CallerParams == {NoParams, [NoParams EXCEPT !["limit"] = Some(10)]}

\* The records of page p: the j-th record of the p-th page is <<p, j>>.
RowsOf(p, n) == [j \in 1..n |-> <<p, j>>]

\* The JSON bodies the server may answer the p-th page request with: the
\* records container under "results" (empty, or MaxRecs records) or under another
\* key ("events"), a `paging` envelope (absent, without `next`, or with
\* next.after), the legacy flag hasMore (absent, true, false) and the legacy
\* continuation field offset. Continuation values are opaque to the client;
\* page p hands out p.
Containers ==
    {[key |-> "results", n |-> n] : n \in {0, MaxRecs}} \cup {[key |-> "events", n |-> 1]}

PageBodies(p) ==
    { [results |-> IF c.key = "results" THEN Some(RowsOf(p, c.n)) ELSE Nothing,
       events  |-> IF c.key = "events" THEN Some(RowsOf(p, c.n)) ELSE Nothing,
       paging  |-> paging, hasMore |-> more, offset |-> off] :
        c \in Containers,
        paging \in {Nothing, Some([next |-> Nothing]),
                    Some([next |-> Some([after |-> p])])},
        more \in {Nothing, Some(TRUE), Some(FALSE)},
        off \in {Nothing, Some(p)} }

\* The bodies of the metadata endpoint: a list of property rows (their names).
MetaBodies == {<<>>, <<"email">>}

RetryAfters == {Nothing, Some(0), Some(1)}

\* The answers of the token endpoint.
RefreshResponses ==
    { [status |-> s, access_token |-> "a1", refresh_token |-> "r1",
       expires_in |-> e] : s \in {200, 403, 500}, e \in {margin - 1, margin + 1} }

VARIABLES
    stream,      \* the stream instance's class attributes
    credentials, \* API._credentials
    headers,     \* API._session.headers["Authorization"]
    now,         \* datetime.utcnow(), in seconds
    op,          \* the operation in progress: "none", "list", "post"
    pc,          \* "idle", "get", "returned", "yield", "done", "failed"
    call,        \* what the pending API.get is for: "properties" or "page"
    frame,       \* the pending (or just ended) API call: its attempts, whether
                 \* the last one asked for a new token, the last request
                 \* sent, the status and Retry-After of the responses
                 \* received, the sleeps made and the give-ups logged
    params,      \* read's local `params`
    response,    \* read's local `response`
    rows,        \* records of `response` not yet yielded
    yielded,     \* records handed to the consumer by this read
    served,      \* the record lists of the pages returned to this read
    ncalls,      \* getter invocations of this read
    err,         \* the exception that reached the caller
    http,        \* HTTP requests sent by this read (or post), per endpoint
    resolved,    \* the instance's properties were resolved once before
    chunk        \* read_chunked: the caller's params mapping, the local
                 \* params, now_ts, and the windows issued so far

vars == <<stream, credentials, headers, now, op, pc, call, frame, params,
          response, rows, yielded, served, ncalls, err, http, resolved, chunk>>

NoResponse ==
    [results |-> Nothing, events |-> Nothing, paging |-> Nothing,
     hasMore |-> Nothing, offset |-> Nothing]
NoErr == [type |-> "", key |-> ""]
Exc(type) == [type |-> type, key |-> ""]
NoRequest == [url |-> "", params |-> NoParams, authorization |-> Nothing, ttl |-> Nothing]
NoFrame ==
    [tries |-> 0, refreshed |-> FALSE, sent |-> NoRequest, log |-> <<>>,
     sleeps |-> <<>>, giveups |-> 0]

NoHttp == [properties |-> 0, page |-> 0, post |-> 0]
NoChunk == [given |-> NoParams, params |-> NoParams, now_ts |-> 0, windows |-> <<>>]

\* dict.get(key): the value under `key`, None when the key is missing.
Get(m, k) == IF k \in DOMAIN m THEN m[k] ELSE Nothing
\* dict.get(key) for a key that may itself be None (more_key = None).
GetOpt(m, ok) == IF ok = Nothing THEN Nothing ELSE Get(m, ok[1])

\* {**default_params, **params}: the caller's value wins on a key collision.
Merge(defaults, overrides) ==
    [k \in ParamKeys |-> IF overrides[k] # Nothing THEN overrides[k] ELSE defaults[k]]

\* ---------------------------------------------------- credential store
ApiKeyCredentials ==
    [api_key |-> Some("key"), access_token |-> Nothing,
     refresh_token |-> Nothing, token_expires |-> Nothing]

OAuthCredentials ==
    { [api_key |-> Nothing, access_token |-> a, refresh_token |-> Some("r0"),
       token_expires |-> t] :
        a \in {Nothing, Some("a0")}, t \in {Nothing, Some(1)} }

\* requests' Response.raise_for_status: raises for 4xx and 5xx only.
RaiseForStatus(status) == 400 <= status /\ status < 600

\* The token refresh storing the expiry without the safety margin.
AcquireAccessTokenWithoutMargin(cred, t, rr) ==
    IF rr.status = 403
    THEN [exc |-> Some("HubspotInvalidAuth"), credentials |-> cred]
    ELSE IF RaiseForStatus(rr.status)
    THEN [exc |-> Some("HTTPError"), credentials |-> cred]
    ELSE [exc |-> Nothing,
          credentials |->
              [cred EXCEPT !.access_token = Some(rr.access_token),
                           !.refresh_token = Some(rr.refresh_token),
                           !.token_expires = Some(t + rr.expires_in)]]

\* API._acquire_access_token_from_refresh_token, answered by rr at time t.
AcquireAccessTokenFromRefreshToken(cred, t, rr) ==
    IF rr.status = 403
    THEN [exc |-> Some("HubspotInvalidAuth"), credentials |-> cred]
    ELSE IF RaiseForStatus(rr.status)
    THEN [exc |-> Some("HTTPError"), credentials |-> cred]
    ELSE [exc |-> Nothing,
          credentials |->
              [cred EXCEPT !.access_token = Some(rr.access_token),
                           !.refresh_token = Some(rr.refresh_token),
                           !.token_expires = Some(t + rr.expires_in - margin)]]

\* Whether the access_token property posts to the token endpoint.
NeedsRefresh(cred, t) ==
    /\ cred.access_token # Nothing
    /\ (cred.token_expires = Nothing \/ cred.token_expires[1] < t)

\* The API.access_token property.
AccessToken(cred, t, rr) ==
    IF cred.access_token = Nothing
    THEN [exc |-> Nothing, credentials |-> cred, token |-> Nothing, refreshed |-> FALSE]
    ELSE IF NeedsRefresh(cred, t)
    THEN LET r == AcquireAccessTokenFromRefreshToken(cred, t, rr)
         IN  [exc |-> r.exc, credentials |-> r.credentials,
              token |-> r.credentials.access_token, refreshed |-> TRUE]
    ELSE [exc |-> Nothing, credentials |-> cred, token |-> cred.access_token,
          refreshed |-> FALSE]

\* str(token) inside f"Bearer {self.access_token}": None prints as "None".
Str(token) == IF token = Nothing THEN "None" ELSE token[1]

\* API._add_auth(params) at time t: the api key goes into the params, else the
\* bearer token goes into the session's headers.
AddAuth(cred, hdr, t, p, rr) ==
    IF cred.api_key # Nothing
    THEN [exc |-> Nothing, credentials |-> cred, headers |-> hdr,
          params |-> [p EXCEPT !["hapikey"] = cred.api_key],
          refreshed |-> FALSE, ttl |-> Nothing]
    ELSE LET a == AccessToken(cred, t, rr)
         IN  IF a.exc # Nothing
             THEN [exc |-> a.exc, credentials |-> a.credentials, headers |-> hdr,
                   params |-> p, refreshed |-> a.refreshed, ttl |-> Nothing]
             ELSE [exc |-> Nothing, credentials |-> a.credentials,
                   headers |-> Some(Str(a.token)), params |-> p,
                   refreshed |-> a.refreshed,
                   ttl |-> IF a.credentials.token_expires = Nothing THEN Nothing
                           ELSE Some(a.credentials.token_expires[1] - t)]

\* The token endpoint's answers that matter to this attempt.
RefreshInputs(cred, t) ==
    IF cred.api_key = Nothing /\ NeedsRefresh(cred, t)
    THEN RefreshResponses
    ELSE {CHOOSE rr \in RefreshResponses : rr.status = 200}

\* ----------------------------------------------------------- HTTP client
\* API._parse_and_handle_errors: the exception raised for the response, or
\* none when response.json() is returned.
ParseAndHandleErrors(resp) ==
    IF resp.status = 403 THEN Some("HubspotSourceUnavailable")
    ELSE IF resp.status = 429 THEN Some("HubspotRateLimited")
    ELSE IF RaiseForStatus(resp.status) THEN Some("HTTPError")
    ELSE Nothing

\* The status and the Retry-After header of the answers to one HTTP request
\* (the header is read only from a 429). The JSON body of an answer that is
\* returned is drawn when the caller receives it.
Responses ==
    { [status |-> s, retry_after |-> Nothing] : s \in {200, 301, 403, 500} }
    \cup { [status |-> 429, retry_after |-> ra] : ra \in RetryAfters }

\* OnException sleeping Retry-After seconds, without the extra second.
OnExceptionNoExtraSecond(exc, n, ra) ==
    IF exc # "HubspotRateLimited"
    THEN [retry |-> FALSE, exc |-> exc, sleep |-> Nothing, giveup |-> FALSE]
    ELSE IF n = max_tries
    THEN [retry |-> FALSE, exc |-> exc, sleep |-> Nothing, giveup |-> TRUE]
    ELSE IF ra = Nothing
    THEN [retry |-> FALSE, exc |-> "KeyError", sleep |-> Nothing, giveup |-> FALSE]
    ELSE [retry |-> TRUE, exc |-> exc, sleep |-> Some(ra[1]), giveup |-> FALSE]

\* OnException catching every exception of the client, not the rate limit
\* alone.
OnExceptionCatchesAll(exc, n, ra) ==
    IF n = max_tries
    THEN [retry |-> FALSE, exc |-> exc, sleep |-> Nothing, giveup |-> TRUE]
    ELSE IF exc # "HubspotRateLimited"
    THEN [retry |-> TRUE, exc |-> exc, sleep |-> Some(0), giveup |-> FALSE]
    ELSE IF ra = Nothing
    THEN [retry |-> FALSE, exc |-> "KeyError", sleep |-> Nothing, giveup |-> FALSE]
    ELSE [retry |-> TRUE, exc |-> exc, sleep |-> Some(ra[1] + 1), giveup |-> FALSE]

\* retry_after_handler: what backoff.on_exception does with exception `exc`
\* raised by attempt number n, the response carrying Retry-After `ra`.
\* Only HubspotRateLimited is caught; the last try gives up; before a retry
\* sleep_on_ratelimit reads the Retry-After header and sleeps.
OnException(exc, n, ra) ==
    IF exc # "HubspotRateLimited"
    THEN [retry |-> FALSE, exc |-> exc, sleep |-> Nothing, giveup |-> FALSE]
    ELSE IF n = max_tries
    THEN [retry |-> FALSE, exc |-> exc, sleep |-> Nothing, giveup |-> TRUE]
    ELSE IF ra = Nothing
    THEN [retry |-> FALSE, exc |-> "KeyError", sleep |-> Nothing, giveup |-> FALSE]
    ELSE [retry |-> TRUE, exc |-> exc, sleep |-> Some(ra[1] + 1), giveup |-> FALSE]

\* API.post is not decorated: every exception reaches the caller.
NoRetry(exc, n, ra) ==
    [retry |-> FALSE, exc |-> exc, sleep |-> Nothing, giveup |-> FALSE]

\* ------------------------------------------------------------ pagination
\* dict(row["name"] -> ...).keys() over the metadata rows: each name once, in
\* the order of its first row.
RECURSIVE Keys(_)
Keys(data) ==
    IF data = <<>> THEN <<>>
    ELSE LET rest == Keys(SubSeq(data, 1, Len(data) - 1))
             last == data[Len(data)]
         IN  IF \E i \in 1..Len(rest) : rest[i] = last THEN rest
             ELSE Append(rest, last)

\* read's default_params for the property names `props`.
DefaultParams(s, props) ==
    [NoParams EXCEPT !["limit"] = Some(s.limit), !["properties"] = Some(props)]

\* Python truthiness of response.get(self.more_key, False).
Truthy(v) == v # Nothing /\ v[1] = TRUE

\* NextPage with the legacy flag consulted before the paging envelope.
NextPageFlagFirst(s, resp, p) ==
    IF ~Truthy(GetOpt(resp, s.more_key)) /\ GetOpt(resp, s.more_key) # Nothing
    THEN [continue |-> FALSE, params |-> p]
    ELSE IF resp.paging # Nothing /\ resp.paging[1].next # Nothing
    THEN [continue |-> TRUE,
          params |-> [p EXCEPT !["after"] = Some(resp.paging[1].next[1].after)]]
    ELSE [continue |-> FALSE, params |-> p]

\* NextPage going on whenever the continuation field is present.
NextPageFieldDecides(s, resp, p) ==
    IF resp.paging # Nothing
    THEN IF resp.paging[1].next # Nothing
         THEN [continue |-> TRUE,
               params |-> [p EXCEPT !["after"] = Some(resp.paging[1].next[1].after)]]
         ELSE [continue |-> FALSE, params |-> p]
    ELSE IF Get(resp, s.page_field) # Nothing
         THEN [continue |-> TRUE,
               params |-> [p EXCEPT ![s.page_filter] = Get(resp, s.page_field)]]
         ELSE [continue |-> Truthy(GetOpt(resp, s.more_key)), params |-> p]

\* NextPage falling back to the legacy fields when `paging` has no `next`.
NextPageFallsBackToLegacy(s, resp, p) ==
    IF resp.paging # Nothing /\ resp.paging[1].next # Nothing
    THEN [continue |-> TRUE,
          params |-> [p EXCEPT !["after"] = Some(resp.paging[1].next[1].after)]]
    ELSE IF ~Truthy(GetOpt(resp, s.more_key))
         THEN [continue |-> FALSE, params |-> p]
         ELSE IF Get(resp, s.page_field) # Nothing
              THEN [continue |-> TRUE,
                    params |-> [p EXCEPT ![s.page_filter] = Get(resp, s.page_field)]]
              ELSE [continue |-> TRUE, params |-> p]

\* The continuation policy of read, evaluated on one response after its
\* records were yielded: whether the loop goes on, and with which params.
NextPage(s, resp, p) ==
    IF resp.paging # Nothing
    THEN IF resp.paging[1].next # Nothing
         THEN [continue |-> TRUE,
               params |-> [p EXCEPT !["after"] = Some(resp.paging[1].next[1].after)]]
         ELSE [continue |-> FALSE, params |-> p]
    ELSE IF ~Truthy(GetOpt(resp, s.more_key))
         THEN [continue |-> FALSE, params |-> p]
         ELSE IF Get(resp, s.page_field) # Nothing
              THEN [continue |-> TRUE,
                    params |-> [p EXCEPT ![s.page_filter] = Get(resp, s.page_field)]]
              ELSE [continue |-> TRUE, params |-> p]

\* ------------------------------------------------------------ read_chunked
\* Range with the stop value included.
RECURSIVE RangeInclusive(_, _, _)
RangeInclusive(a, b, step) ==
    IF a > b THEN <<>> ELSE <<a>> \o RangeInclusive(a + step, b, step)

\* Python's range(a, b, step) for a positive step.
RECURSIVE Range(_, _, _)
Range(a, b, step) == IF a >= b THEN <<>> ELSE <<a>> \o Range(a + step, b, step)

\* SetWindow with the end of the window cut at now_ts.
SetWindowClipped(c, ts) ==
    LET end == IF ts + chunk_size > c.now_ts THEN c.now_ts ELSE ts + chunk_size
    IN  [c EXCEPT !.params = [c.params EXCEPT !["startTimestamp"] = Some(ts),
                                               !["endTimestamp"] = Some(end)],
                  !.windows = Append(c.windows, [startTimestamp |-> ts,
                                                 endTimestamp |-> end])]

\* The loop body of read_chunked for the window starting at ts: the two
\* timestamps are written into read_chunked's own params, a copy of the
\* caller's mapping.
SetWindow(c, ts) ==
    [c EXCEPT !.params = [c.params EXCEPT !["startTimestamp"] = Some(ts),
                                           !["endTimestamp"] = Some(ts + chunk_size)],
              !.windows = Append(c.windows, [startTimestamp |-> ts,
                                             endTimestamp |-> ts + chunk_size])]

\* ------------------------------------------------------------------ Init
Init ==
    /\ stream \in Streams
    /\ credentials \in {ApiKeyCredentials} \cup OAuthCredentials
    /\ headers = Nothing
    /\ now = 0
    /\ op = "none"
    /\ pc = "idle"
    /\ call = "none"
    /\ frame = NoFrame
    /\ params = NoParams
    /\ response = NoResponse
    /\ rows = <<>>
    /\ yielded = <<>>
    /\ served = <<>>
    /\ ncalls = 0
    /\ err = NoErr
    /\ http = NoHttp
    /\ resolved = FALSE
    /\ chunk = NoChunk

\* --------------------------------------------------------------- actions
\* StartRead building its params on top of those of the read before.
StartReadKeepsParams(given) ==
    /\ pc' = "get"
    /\ response' = NoResponse
    /\ rows' = <<>>
    /\ yielded' = <<>>
    /\ served' = <<>>
    /\ http' = NoHttp
    /\ IF stream.entity # Nothing
       THEN /\ call' = "properties"
            /\ params' = given
            /\ ncalls' = 0
       ELSE /\ call' = "page"
            /\ params' = Merge(Merge(DefaultParams(stream, <<>>), params), given)
            /\ ncalls' = 1

\* StartRead going to the first page without asking for the properties.
StartReadWithoutProperties(given) ==
    /\ pc' = "get"
    /\ response' = NoResponse
    /\ rows' = <<>>
    /\ yielded' = <<>>
    /\ served' = <<>>
    /\ http' = NoHttp
    /\ call' = "page"
    /\ params' = Merge(DefaultParams(stream, <<>>), given)
    /\ ncalls' = 1

\* read is entered with the params `given`: it asks for the entity's
\* properties (StreamAPI.properties) when the stream has an entity, else it
\* merges the params and invokes the getter.
StartRead(given) ==
    /\ pc' = "get"
    /\ response' = NoResponse
    /\ rows' = <<>>
    /\ yielded' = <<>>
    /\ served' = <<>>
    /\ http' = NoHttp
    /\ IF stream.entity # Nothing
       THEN /\ call' = "properties"
            /\ params' = given
            /\ ncalls' = 0
       ELSE /\ call' = "page"
            /\ params' = Merge(DefaultParams(stream, <<>>), given)
            /\ ncalls' = 1

\* The consumer calls list() and pulls the first record. A chunked stream
\* goes through read_chunked: it copies the caller's params, takes now_ts and
\* enters read for the first window, or ends at once when no window is due.
\* The other streams enter read directly.
List ==
    /\ pc \in {"idle", "done", "failed"}
    /\ op' = "list"
    /\ frame' = NoFrame
    /\ err' = NoErr
    /\ IF stream.chunked
       THEN \E g \in CallerParams :
              LET c == [given |-> g, params |-> g, now_ts |-> now * 1000,
                        windows |-> <<>>]
                  r == Range(stream.start_date, c.now_ts, chunk_size)
              IN  IF r = <<>>
                  THEN /\ chunk' = c
                       /\ pc' = "done"
                       /\ call' = "none"
                       /\ params' = NoParams
                       /\ ncalls' = 0
                       /\ response' = NoResponse
                       /\ rows' = <<>>
                       /\ yielded' = <<>>
                       /\ served' = <<>>
                       /\ http' = NoHttp
                  ELSE /\ chunk' = SetWindow(c, r[1])
                       /\ StartRead(chunk'.params)
       ELSE /\ StartRead([NoParams EXCEPT !["archived"] = stream.archived])
            /\ UNCHANGED chunk
    /\ UNCHANGED <<stream, credentials, headers, now, resolved>>

\* One attempt of an API call on `given` params at time t, answered by the
\* token endpoint with rr (when a refresh is made) and by the API with resp;
\* `decorated` tells whether the call runs under retry_after_handler. The result is the
\* call's frame after the attempt with the outcome: "return", "retry", "raise".
Attempt(f, url, cred, hdr, t, given, rr, resp, decorated) ==
    LET a == AddAuth(cred, hdr, t, given, rr)
        e == ParseAndHandleErrors(resp)
        h == IF decorated THEN OnException(e[1], f.tries + 1, resp.retry_after)
             ELSE NoRetry(e[1], f.tries + 1, resp.retry_after)
        g == [f EXCEPT !.tries = f.tries + 1, !.refreshed = a.refreshed]
        q == [g EXCEPT !.sent = [url |-> url, params |-> a.params,
                                 authorization |-> a.headers, ttl |-> a.ttl],
                       !.log = Append(f.log, [status |-> resp.status,
                                              retry_after |-> resp.retry_after])]
    IN  IF a.exc # Nothing
        THEN [outcome |-> "raise", exc |-> a.exc[1], frame |-> g, auth |-> a]
        ELSE IF e = Nothing
        THEN [outcome |-> "return", exc |-> "", frame |-> q, auth |-> a]
        ELSE IF h.retry
        THEN [outcome |-> "retry", exc |-> "",
              frame |-> [q EXCEPT !.sleeps = Append(f.sleeps, h.sleep[1])],
              auth |-> a]
        ELSE [outcome |-> "raise", exc |-> h.exc,
              frame |-> [q EXCEPT !.giveups = IF h.giveup THEN f.giveups + 1
                                              ELSE f.giveups],
              auth |-> a]

\* `params or {}` in _add_auth: a non-empty mapping is the caller's own object,
\* and the api key written into it stays there.
AfterAuth(given, a) == IF given = NoParams THEN given ELSE a.params

\* One attempt of the pending API.get call (properties' metadata request, or
\* read's getter) under the backoff decorator.
GetAttempt ==
    /\ pc = "get"
    /\ \E rr \in RefreshInputs(credentials, now), resp \in Responses :
        LET given == IF call = "page" THEN params ELSE NoParams
            x == Attempt(frame, call, credentials, headers, now, given, rr, resp,
                         TRUE)
        IN  /\ credentials' = x.auth.credentials
            /\ headers' = x.auth.headers
            /\ frame' = x.frame
            /\ params' = IF call = "page" THEN AfterAuth(given, x.auth) ELSE params
            /\ now' = IF x.outcome = "retry"
                      THEN now + x.frame.sleeps[Len(x.frame.sleeps)] + interval
                      ELSE now
            /\ now' <= MaxClock
            /\ pc' = CASE x.outcome = "return" -> "returned"
                       [] x.outcome = "retry" -> "get"
                       [] OTHER -> "failed"
            /\ err' = IF x.outcome = "raise" THEN Exc(x.exc) ELSE err
            /\ http' = IF Len(x.frame.log) > Len(frame.log)
                       THEN [http EXCEPT ![call] = @ + 1]
                       ELSE http
    /\ UNCHANGED <<stream, op, call, response, rows, yielded, served, ncalls,
                   resolved, chunk>>

\* read receives the metadata rows `data` from StreamAPI.properties: the params
\* are merged and the getter is invoked for the first page.
ReadProperties(data) ==
    /\ params' = Merge(DefaultParams(stream, Keys(data)), params)
    /\ call' = "page"
    /\ ncalls' = 1
    /\ pc' = "get"
    /\ resolved' = TRUE
    /\ UNCHANGED <<response, rows, served, err>>

\* ReadPage yielding from the second record on.
ReadPageSkipsFirst(body) ==
    /\ response' = body
    /\ IF Get(body, stream.data_path) = Nothing
       THEN /\ pc' = "failed"
            /\ err' = [type |-> "RuntimeError", key |-> stream.data_path]
            /\ UNCHANGED <<rows, served>>
       ELSE /\ rows' = IF Get(body, stream.data_path)[1] = <<>> THEN <<>>
                       ELSE Tail(Get(body, stream.data_path)[1])
            /\ served' = Append(served, Get(body, stream.data_path)[1])
            /\ pc' = "yield"
            /\ err' = err
    /\ UNCHANGED <<call, ncalls, params, resolved>>

\* ReadPage taking a missing records container for an empty page.
ReadPageMissingIsEmpty(body) ==
    /\ response' = body
    /\ rows' = IF Get(body, stream.data_path) = Nothing THEN <<>>
               ELSE Get(body, stream.data_path)[1]
    /\ served' = Append(served, rows')
    /\ pc' = "yield"
    /\ err' = err
    /\ UNCHANGED <<call, ncalls, params, resolved>>

\* read receives the page `body` from its getter: a missing records container
\* is a structural error, else its records are yielded one by one.
ReadPage(body) ==
    /\ response' = body
    /\ IF Get(body, stream.data_path) = Nothing
       THEN /\ pc' = "failed"
            /\ err' = [type |-> "RuntimeError", key |-> stream.data_path]
            /\ UNCHANGED <<rows, served>>
       ELSE /\ rows' = Get(body, stream.data_path)[1]
            /\ served' = Append(served, Get(body, stream.data_path)[1])
            /\ pc' = "yield"
            /\ err' = err
    /\ UNCHANGED <<call, ncalls, params, resolved>>

\* Resume with the attempts of the call that returned counted against the
\* next call.
ResumeKeepsTries ==
    /\ pc = "returned"
    /\ frame' = [NoFrame EXCEPT !.tries = frame.tries]
    /\ IF call = "properties"
       THEN \E data \in MetaBodies : ReadProperties(data)
       ELSE \E body \in PageBodies(ncalls) : ReadPage(body)
    /\ UNCHANGED <<stream, credentials, headers, now, op, yielded, http, chunk>>

\* The API call has returned its JSON body to read.
Resume ==
    /\ pc = "returned"
    /\ frame' = NoFrame
    /\ IF call = "properties"
       THEN \E data \in MetaBodies : ReadProperties(data)
       ELSE \E body \in PageBodies(ncalls) : ReadPage(body)
    /\ UNCHANGED <<stream, credentials, headers, now, op, yielded, http, chunk>>

\* The consumer pulls the next record of the current page.
YieldRow ==
    /\ pc = "yield"
    /\ rows # <<>>
    /\ yielded' = Append(yielded, Head(rows))
    /\ rows' = Tail(rows)
    /\ UNCHANGED <<stream, credentials, headers, now, op, pc, call, frame,
                   params, response, served, ncalls, err, http, resolved, chunk>>

\* Paginate asking for the next page while the last record of the page is
\* still to be yielded.
PaginateEager ==
    /\ pc = "yield"
    /\ Len(rows) <= 1
    /\ LET n == NextPage(stream, response, params)
           r == Range(stream.start_date, chunk.now_ts, chunk_size)
       IN  IF n.continue
           THEN /\ ncalls < MaxPages
                /\ params' = n.params
                /\ pc' = "get"
                /\ ncalls' = ncalls + 1
                /\ UNCHANGED <<call, response, rows, yielded, served, http, chunk>>
           ELSE /\ rows = <<>>
                /\ IF stream.chunked /\ Len(chunk.windows) < Len(r)
                   THEN /\ chunk' = SetWindow(chunk, r[Len(chunk.windows) + 1])
                        /\ StartRead(chunk'.params)
                   ELSE /\ pc' = "done"
                        /\ UNCHANGED <<call, params, ncalls, response, rows,
                                       yielded, served, http, chunk>>
    /\ UNCHANGED <<stream, credentials, headers, now, op, frame, err, resolved>>

\* The page is exhausted: read applies its continuation policy and either
\* invokes the getter again or ends; when it ends inside read_chunked, the
\* loop over the windows goes on with the next window, if one is left.
Paginate ==
    /\ pc = "yield"
    /\ rows = <<>>
    /\ LET n == NextPage(stream, response, params)
           r == Range(stream.start_date, chunk.now_ts, chunk_size)
       IN  IF n.continue
           THEN /\ ncalls < MaxPages
                /\ params' = n.params
                /\ pc' = "get"
                /\ ncalls' = ncalls + 1
                /\ UNCHANGED <<call, response, rows, yielded, served, http, chunk>>
           ELSE IF stream.chunked /\ Len(chunk.windows) < Len(r)
           THEN /\ chunk' = SetWindow(chunk, r[Len(chunk.windows) + 1])
                /\ StartRead(chunk'.params)
           ELSE /\ pc' = "done"
                /\ UNCHANGED <<call, params, ncalls, response, rows, yielded,
                               served, http, chunk>>
    /\ UNCHANGED <<stream, credentials, headers, now, op, frame, err, resolved>>

\* API.post: one attempt, no decorator.
Post ==
    /\ pc \in {"idle", "done", "failed"}
    /\ op' = "post"
    /\ \E rr \in RefreshInputs(credentials, now), resp \in Responses :
        LET x == Attempt(NoFrame, "post", credentials, headers, now, NoParams, rr,
                         resp, FALSE)
        IN  /\ credentials' = x.auth.credentials
            /\ headers' = x.auth.headers
            /\ frame' = x.frame
            /\ pc' = IF x.outcome = "return" THEN "done" ELSE "failed"
            /\ err' = IF x.outcome = "raise" THEN Exc(x.exc) ELSE NoErr
            /\ http' = [NoHttp EXCEPT !["post"] = Len(x.frame.log)]
    /\ call' = "none"
    /\ params' = NoParams
    /\ response' = NoResponse
    /\ rows' = <<>>
    /\ yielded' = <<>>
    /\ served' = <<>>
    /\ ncalls' = 0
    /\ chunk' = NoChunk
    /\ UNCHANGED <<stream, now, resolved>>

\* Time passes; the clock is read by an attempt only.
Tick ==
    /\ pc \in {"idle", "get", "done", "failed"}
    /\ now < MaxClock
    /\ now' = now + 1
    /\ UNCHANGED <<stream, credentials, headers, op, pc, call, frame, params,
                   response, rows, yielded, served, ncalls, err, http, resolved,
                   chunk>>

Next == List \/ GetAttempt \/ Resume \/ YieldRow \/ Paginate \/ Post \/ Tick

Spec == Init /\ [][Next]_vars

\* The same program with an api key configured.
InitKey == Init /\ credentials = ApiKeyCredentials
SpecKey == InitKey /\ [][Next]_vars

\* The same program with OAuth credentials configured.
InitOAuth == Init /\ credentials \in OAuthCredentials /\ stream = OwnersAPI
SpecOAuth == InitOAuth /\ [][Next]_vars

\* A stream whose list() goes through read_chunked, with an api key.
InitChunked ==
    /\ stream \in ChunkedStreams
    /\ credentials = ApiKeyCredentials
    /\ headers = Nothing
    /\ now = 0
    /\ op = "none"
    /\ pc = "idle"
    /\ call = "none"
    /\ frame = NoFrame
    /\ params = NoParams
    /\ response = NoResponse
    /\ rows = <<>>
    /\ yielded = <<>>
    /\ served = <<>>
    /\ ncalls = 0
    /\ err = NoErr
    /\ http = NoHttp
    /\ resolved = FALSE
    /\ chunk = NoChunk
SpecChunked == InitChunked /\ [][Next]_vars

\* ------------------------------------------------------------ properties
\* The records of a sequence of pages, page after page.
RECURSIVE Flatten(_)
Flatten(pages) ==
    IF pages = <<>> THEN <<>>
    ELSE Flatten(SubSeq(pages, 1, Len(pages) - 1)) \o pages[Len(pages)]

\* The response held by read was accepted as a page: it has the records
\* container of the stream.
IsPage == response # NoResponse /\ Get(response, stream.data_path) # Nothing

\* The response held by read carries paging.next.after.
HasNextAfter == response.paging # Nothing /\ response.paging[1].next # Nothing

\* read has gone on from the response it holds to another getter invocation.
WentOn == op = "list" /\ call = "page" /\ ncalls = Len(served) + 1 /\ served # <<>>

\* read has not gone on from the response it holds.
Stayed == pc \in {"yield", "done"} /\ ncalls = Len(served)

\* C1: a page that carries paging.next.after is never the last one: read does
\* not end on it, and the one getter invocation that follows it carries that
\* value as `after` in the params and in every request sent for it, whatever
\* hasMore and offset the same response holds.
C1_CursorContinues ==
    (op = "list" /\ IsPage /\ HasNextAfter) =>
        /\ pc # "done"
        /\ ncalls \in {Len(served), Len(served) + 1}
        /\ WentOn =>
            /\ params["after"] = Some(response.paging[1].next[1].after)
            /\ frame.sent.url # "" => frame.sent.params["after"] = params["after"]

\* A request with after = 1 was sent for the second page although the first
\* page said hasMore = false and held an offset.
C1_Witness ==
    /\ WentOn /\ HasNextAfter
    /\ stream.more_key = Some("hasMore")
    /\ response.hasMore = Some(FALSE)
    /\ response.offset # Nothing
    /\ pc = "returned"
    /\ frame.sent.params["after"] = Some(1)

\* C2: at every moment the records yielded followed by those still to yield
\* are the records of the pages served, page after page and in page order;
\* when read ends, every record of the N pages was yielded exactly once and
\* the getter was invoked exactly N times.
C2_YieldsAllInOrder ==
    op = "list" =>
        /\ yielded \o rows = Flatten(served)
        /\ \A i \in 1..Len(served) : served[i] = RowsOf(i, Len(served[i]))
        /\ \A i, j \in 1..Len(yielded) : i < j =>
            \/ yielded[i][1] < yielded[j][1]
            \/ yielded[i][1] = yielded[j][1] /\ yielded[i][2] < yielded[j][2]
        /\ pc = "done" => yielded = Flatten(served) /\ ncalls = Len(served)

\* A read of two pages of two records each has ended.
C2_Witness ==
    /\ pc = "done" /\ op = "list"
    /\ Len(served) = 2 /\ Len(served[1]) = 2 /\ Len(served[2]) = 2
    /\ Len(yielded) = 4

\* The legacy flag of the response held by read is false or absent (or the
\* stream names no flag).
FlagOff ==
    \/ stream.more_key = Nothing
    \/ stream.more_key = Some("hasMore") /\ response.hasMore \in {Nothing, Some(FALSE)}

\* C3: a page without `paging` envelope whose more_key flag is false or absent
\* is the last one: no getter invocation follows it, also when the page holds
\* the continuation field.
C3_LegacyStops ==
    (op = "list" /\ IsPage /\ response.paging = Nothing /\ FlagOff) => Stayed

\* read ended on a legacy page with hasMore = false and an offset.
C3_Witness ==
    /\ op = "list" /\ pc = "done" /\ IsPage
    /\ stream.more_key = Some("hasMore")
    /\ response.paging = Nothing
    /\ response.hasMore = Some(FALSE)
    /\ response.offset # Nothing
    /\ yielded # <<>>

\* C4 (as claimed): a page without `paging` envelope whose more_key flag is
\* true but which holds no continuation field is the last one.
C4_StopsWithoutContinuation ==
    (/\ op = "list" /\ IsPage /\ response.paging = Nothing
     /\ stream.more_key = Some("hasMore")
     /\ response.hasMore = Some(TRUE)
     /\ Get(response, stream.page_field) = Nothing) => Stayed

\* The exception kinds of a data call that are not the rate limit.
OtherKinds == {"HubspotSourceUnavailable", "HTTPError", "HubspotInvalidAuth"}

\* An attempt of an API call is made in this step.
AttemptStep ==
    \/ pc = "get" /\ frame'.tries = frame.tries + 1
    \/ /\ pc \in {"idle", "done", "failed"}
       /\ op' = "post" /\ pc' \in {"done", "failed"} /\ now' = now

\* C5 (state): every sleep of an API call follows a 429 of that call and lasts
\* its Retry-After plus one second; when a call returns on its second attempt
\* after a 429, it has slept exactly once, has not given up, raised nothing,
\* and it is still the same getter invocation of read: no page was skipped or
\* served twice.
C5_State ==
    /\ Len(frame.sleeps) <= Len(frame.log)
    /\ \A i \in 1..Len(frame.sleeps) :
        /\ frame.log[i].status = 429
        /\ frame.log[i].retry_after # Nothing
        /\ frame.sleeps[i] = frame.log[i].retry_after[1] + 1
    /\ (pc = "returned" /\ frame.tries = 2 /\ frame.log[1].status = 429) =>
        /\ Len(frame.sleeps) = 1
        /\ frame.giveups = 0
        /\ err = NoErr
        /\ call = "page" => ncalls = Len(served) + 1 /\ yielded = Flatten(served)

\* C5 (step): the retry that follows a 429 sends the request of the first
\* attempt again (same url, same params), and the step that received the 429
\* let exactly its sleep pass.
C5_Step ==
    /\ (pc = "get" /\ frame.tries >= 1 /\ frame'.tries = frame.tries + 1) =>
        /\ frame'.sent.url = frame.sent.url
        /\ frame'.sent.params = frame.sent.params
    /\ (pc = "get" /\ frame'.tries = frame.tries + 1) =>
        IF pc' = "get"
        THEN /\ frame'.sleeps = Append(frame.sleeps, frame'.log[Len(frame'.log)].retry_after[1] + 1)
             /\ now' = now + frame'.log[Len(frame'.log)].retry_after[1] + 1
        ELSE frame'.sleeps = frame.sleeps /\ now' = now

\* C5: a 429 followed by a 200 on the retry: one sleep of Retry-After + 1
\* seconds in between, the same request sent again, the call returns and read
\* goes on as after a first-attempt 200.
C5_RetryAfter429 == []C5_State /\ [][C5_Step]_vars

\* The getter returned on its second attempt after a 429 with Retry-After 1
\* and a sleep of 2 seconds.
C5_Witness ==
    /\ pc = "returned" /\ call = "page"
    /\ frame.tries = 2
    /\ frame.log = <<[status |-> 429, retry_after |-> Some(1)],
                    [status |-> 200, retry_after |-> Nothing]>>
    /\ frame.sleeps = <<2>>

\* C6 (as claimed): an API.get call whose every attempt was answered 429
\* fails only after 3 attempts and 2 sleeps, with one give-up logged and the
\* rate-limit error.
C6_ThreeAttemptsThenRateLimited ==
    (/\ op = "list" /\ pc = "failed"
     /\ frame.log # <<>> /\ Len(frame.log) = frame.tries
     /\ \A i \in 1..Len(frame.log) : frame.log[i].status = 429) =>
        /\ frame.tries = max_tries
        /\ Len(frame.sleeps) = max_tries - 1
        /\ frame.giveups = 1
        /\ err.type = "HubspotRateLimited"

\* C6 where every 429 carries a Retry-After header.
C6_WithRetryAfter ==
    (\A i \in 1..Len(frame.log) : frame.log[i].status = 429 => frame.log[i].retry_after # Nothing)
        => C6_ThreeAttemptsThenRateLimited

\* C7 (as claimed): a rate-limit failure reaches the caller of API.get or
\* API.post only after max_tries attempts.
C7_RateLimitedOnlyAfterBudget ==
    (pc = "failed" /\ err.type = "HubspotRateLimited") => frame.tries = max_tries

\* C8: inside one API call a request is followed by another attempt only when
\* it was answered 429; an attempt that fails with another kind (403, another
\* 4xx/5xx, a failed token refresh) is the last one, nothing is slept and no
\* give-up is logged for it, also after earlier 429s of the same call.
C8_OnlyRateLimitRetried ==
    /\ \A i \in 1..(Len(frame.log) - 1) : frame.log[i].status = 429
    /\ Len(frame.log) < frame.tries => pc = "failed" /\ Len(frame.log) = frame.tries - 1
    /\ (pc = "failed" /\ err.type \in OtherKinds) =>
        /\ frame.tries >= 1
        /\ Len(frame.sleeps) = frame.tries - 1
        /\ frame.giveups = 0
        /\ err.type = "HubspotSourceUnavailable" =>
            Len(frame.log) = frame.tries /\ frame.log[frame.tries].status = 403
        /\ err.type = "HubspotInvalidAuth" =>
            Len(frame.log) = frame.tries - 1 /\ frame.refreshed
        /\ err.type = "HTTPError" =>
            \/ Len(frame.log) = frame.tries /\ frame.log[frame.tries].status = 500
            \/ Len(frame.log) = frame.tries - 1 /\ frame.refreshed

\* The second attempt of a getter call failed in the token refresh, after a
\* 429 on the first attempt.
C8_Witness ==
    /\ pc = "failed" /\ op = "list"
    /\ err.type = "HubspotInvalidAuth"
    /\ frame.tries = 2
    /\ frame.log = <<[status |-> 429, retry_after |-> Some(1)]>>
    /\ frame.sleeps = <<2>>

\* C9 (state, as claimed): a request sent with the OAuth credential carries
\* an access token whose stored expiry is in the future.
C9_State ==
    (credentials.api_key = Nothing /\ frame.sent.url # "") =>
        /\ frame.sent.authorization # Nothing
        /\ frame.sent.authorization # Some("None")
        /\ frame.sent.ttl # Nothing
        /\ frame.sent.ttl[1] > 0

\* C9 (step, as claimed): an attempt with the OAuth credential asks for a new
\* token exactly when the stored token is absent or its expiry is not in the
\* future.
C9_Step ==
    (AttemptStep /\ credentials.api_key = Nothing) =>
        (frame'.refreshed <=>
            \/ credentials.access_token = Nothing
            \/ credentials.token_expires = Nothing
            \/ credentials.token_expires[1] <= now)

\* C9 (as claimed).
C9_ValidTokenRefreshedWhenDue == []C9_State /\ [][C9_Step]_vars

\* C10: read fails with RuntimeError exactly on a response without the
\* records container, the error names the configured key, the response adds
\* no page and no record, no getter invocation follows, and read does not
\* end normally on it; a present container, empty or not, is no error.
C10_MissingContainer ==
    op = "list" =>
        /\ (response # NoResponse /\ Get(response, stream.data_path) = Nothing) =>
            /\ pc = "failed"
            /\ err = [type |-> "RuntimeError", key |-> stream.data_path]
            /\ ncalls = Len(served) + 1
            /\ rows = <<>>
            /\ yielded = Flatten(served)
        /\ err.type = "RuntimeError" =>
            response # NoResponse /\ Get(response, stream.data_path) = Nothing
        /\ (pc = "done" /\ served # <<>>) => served[Len(served)] = Get(response, stream.data_path)[1]

\* The second response of a read lacked the container after a first page of
\* records was yielded.
C10_Witness ==
    /\ op = "list" /\ pc = "failed"
    /\ err = [type |-> "RuntimeError", key |-> "results"]
    /\ response.results = Nothing /\ response.events # Nothing
    /\ Len(served) = 1 /\ yielded # <<>>

\* The API call of the frame has ended with a request answered, and its last
\* answer had status LastStatus.
Answered ==
    /\ pc \in {"returned", "done", "failed"}
    /\ frame.log # <<>> /\ Len(frame.log) = frame.tries
LastStatus == frame.log[Len(frame.log)].status

\* C11 (as claimed): the status of the answer decides the outcome of the call:
\* 403 fails with HubspotSourceUnavailable, 429 does not return, every other
\* status outside 200..299 fails with the transport error (HTTPError), and the
\* body is returned for a status in 200..299 only.
C11_ClassifiesEveryStatus ==
    Answered =>
        /\ LastStatus = 403 => pc = "failed" /\ err.type = "HubspotSourceUnavailable"
        /\ LastStatus = 429 => pc = "failed"
        /\ (LastStatus \notin {403, 429} /\ ~(200 <= LastStatus /\ LastStatus < 300)) =>
            pc = "failed" /\ err.type = "HTTPError"
        /\ pc \in {"returned", "done"} => 200 <= LastStatus /\ LastStatus < 300

\* C14: a page whose `paging` envelope has no `next` is the last one: no
\* getter invocation follows it, whatever the legacy flag and the continuation
\* field of the same response say.
C14_PagingWithoutNextStops ==
    (/\ op = "list" /\ IsPage
     /\ response.paging # Nothing
     /\ response.paging[1].next = Nothing) => Stayed

\* read ended on a page with `paging` without `next`, although the page said
\* hasMore = true and held an offset.
C14_Witness ==
    /\ op = "list" /\ pc = "done" /\ IsPage
    /\ stream.more_key = Some("hasMore")
    /\ response.paging = Some([next |-> Nothing])
    /\ response.hasMore = Some(TRUE)
    /\ response.offset # Nothing
    /\ yielded # <<>>

\* The attempt made in this step asked the token endpoint for a new token.
RefreshStep == AttemptStep /\ frame'.refreshed

C19_State ==
    op = "list" =>
        /\ (pc \in {"get", "returned"} /\ call = "page") =>
            /\ rows = <<>>
            /\ Len(served) = ncalls - 1
            /\ yielded = Flatten(served)
        /\ pc = "failed" =>
            /\ rows = <<>>
            /\ yielded = Flatten(served)
            /\ Len(served) = IF call = "page" THEN ncalls - 1 ELSE 0

\* C19 (step): inside one read the records yielded are never withdrawn, and
\* a failing step yields nothing.
C19_Step ==
    (op = "list" /\ pc \notin {"idle", "done", "failed"}) =>
        /\ Len(yielded') >= Len(yielded)
        /\ SubSeq(yielded', 1, Len(yielded)) = yielded
        /\ pc' = "failed" => yielded' = yielded

\* C19: read is lazy: page i+1 is requested only after every record of page i
\* was yielded, and a fatal error on page n leaves the records of pages
\* 1..n-1 yielded and yields none of page n.
C19_LazyAndOrdered == []C19_State /\ [][C19_Step]_vars

\* The request for the second page failed with 403 after the two records of
\* the first page were yielded.
C19_Witness ==
    /\ op = "list" /\ pc = "failed" /\ call = "page"
    /\ err.type = "HubspotSourceUnavailable"
    /\ ncalls = 2 /\ Len(served) = 1
    /\ Len(yielded) = 2

\* C16 (as claimed): once the properties of the instance were resolved, a
\* later read of the same instance sends no request to the metadata endpoint.
C16_PropertiesFetchedOnce ==
    (resolved /\ call = "properties") => http.properties = 0

C20_State ==
    /\ frame.tries <= max_tries
    /\ Len(frame.log) <= max_tries
    /\ pc \in {"yield", "done"} /\ op = "list" => frame = NoFrame
    /\ frame.giveups <= 1
    /\ frame.giveups = 1 =>
        /\ frame.tries = max_tries
        /\ Len(frame.log) = max_tries
        /\ \A i \in 1..max_tries : frame.log[i].status = 429

\* C20 (step): an attempt of an API.get call answered 429 with Retry-After is
\* followed by another attempt whenever the call itself has made fewer than
\* max_tries attempts, whatever was spent on earlier calls of the read.
C20_Step ==
    (/\ pc = "get"
     /\ frame'.tries = frame.tries + 1
     /\ Len(frame'.log) = frame'.tries
     /\ frame'.log[Len(frame'.log)].status = 429
     /\ frame'.log[Len(frame'.log)].retry_after # Nothing
     /\ frame'.tries < max_tries) =>
        pc' = "get" /\ frame'.giveups = 0 /\ err' = err

\* C20: the retry budget is per API.get call.
C20_BudgetPerCall == []C20_State /\ [][C20_Step]_vars

\* The second page request of a read is answered on its second attempt, after
\* the first page request had also needed two attempts: four page requests.
C20_Witness ==
    /\ op = "list" /\ pc = "returned" /\ call = "page"
    /\ ncalls = 2
    /\ frame.tries = 2
    /\ http.page = 4

\* The number of windows due: ceil((now_ts - start_ts) / chunk_size), none
\* when the start date is not before now_ts.
WindowsDue ==
    IF stream.start_date < chunk.now_ts
    THEN (chunk.now_ts - stream.start_date + chunk_size - 1) \div chunk_size
    ELSE 0

\* read_chunked is running or has ended.
InChunked == op = "list" /\ stream.chunked

\* C12: the windows issued by read_chunked start at start_ts, each next one
\* starts where the one before ended, they are strictly increasing and never
\* more than ceil((now_ts - start_ts) / chunk_size); when read_chunked ends
\* they are exactly that many; with start_ts >= now_ts no window is issued,
\* no request is sent and read_chunked ends at once.
C12_WindowsCountAndOrder ==
    InChunked =>
        /\ chunk.windows # <<>> => chunk.windows[1].startTimestamp = stream.start_date
        /\ \A i \in 1..(Len(chunk.windows) - 1) :
            /\ chunk.windows[i + 1].startTimestamp = chunk.windows[i].endTimestamp
            /\ chunk.windows[i].startTimestamp < chunk.windows[i + 1].startTimestamp
        /\ Len(chunk.windows) <= WindowsDue
        /\ pc = "done" => Len(chunk.windows) = WindowsDue
        /\ (pc \in {"get", "returned", "yield"} /\ call = "page") =>
            /\ chunk.windows # <<>>
            /\ params["startTimestamp"] =
                   Some(chunk.windows[Len(chunk.windows)].startTimestamp)
        /\ stream.start_date >= chunk.now_ts =>
            chunk.windows = <<>> /\ pc = "done" /\ http = NoHttp

\* read_chunked ended after two windows for a start date two chunks before
\* now_ts.
C12_Witness ==
    /\ InChunked /\ pc = "done"
    /\ stream.start_date = -(2 * chunk_size) /\ chunk.now_ts = 0
    /\ Len(chunk.windows) = 2
    /\ chunk.windows[2].endTimestamp = 0

\* C13 (as claimed): no window ends after now_ts.
C13_WindowsEndByNow ==
    InChunked =>
        \A i \in 1..Len(chunk.windows) : chunk.windows[i].endTimestamp <= chunk.now_ts

\* C13 (amended): every window is chunk_size long and starts before now_ts;
\* when read_chunked ends, the windows cover [start_ts, now_ts) and the last
\* one ends at or after now_ts, less than chunk_size after it: it is not
\* shortened when (now_ts - start_ts) is not a multiple of chunk_size.
C13_WindowsFixedSize ==
    InChunked =>
        /\ \A i \in 1..Len(chunk.windows) :
            /\ chunk.windows[i].endTimestamp = chunk.windows[i].startTimestamp + chunk_size
            /\ chunk.windows[i].startTimestamp < chunk.now_ts
            /\ chunk.windows[i].startTimestamp = stream.start_date + (i - 1) * chunk_size
        /\ (pc = "done" /\ chunk.windows # <<>>) =>
            /\ chunk.windows[Len(chunk.windows)].endTimestamp >= chunk.now_ts
            /\ chunk.windows[Len(chunk.windows)].endTimestamp < chunk.now_ts + chunk_size
        /\ (pc = "done" /\ chunk.windows # <<>>
            /\ (chunk.now_ts - stream.start_date) % chunk_size # 0) =>
            chunk.windows[Len(chunk.windows)].endTimestamp > chunk.now_ts

\* read_chunked ended for a start date two and a half chunks before now_ts:
\* three windows, the third one ending half a chunk after now_ts.
C13_Witness ==
    /\ InChunked /\ pc = "done"
    /\ stream.start_date = -((5 * chunk_size) \div 2) /\ chunk.now_ts = 0
    /\ Len(chunk.windows) = 3
    /\ chunk.windows[3] = [startTimestamp |-> -(chunk_size \div 2),
                           endTimestamp |-> chunk_size \div 2]

\* C18 (state): the caller's params mapping is as the caller made it; the
\* first request of a window carries the timestamps of that window, the
\* caller's params over read's defaults, and neither `after` nor the
\* page_filter param; every later request of the window carries the same
\* timestamps.
C18_State ==
    InChunked =>
        /\ chunk.given \in CallerParams
        /\ (call = "page" /\ pc \in {"get", "returned", "yield", "failed"}) =>
            /\ chunk.windows # <<>>
            /\ params["startTimestamp"] =
                   Some(chunk.windows[Len(chunk.windows)].startTimestamp)
            /\ params["endTimestamp"] =
                   Some(chunk.windows[Len(chunk.windows)].endTimestamp)
            /\ params["limit"] = IF chunk.given["limit"] # Nothing
                                 THEN chunk.given["limit"] ELSE Some(stream.limit)
            /\ ncalls = 1 =>
                /\ params["after"] = Nothing
                /\ params[stream.page_filter] = Nothing
            /\ frame.sent.url # "" =>
                /\ frame.sent.params["startTimestamp"] = params["startTimestamp"]
                /\ frame.sent.params["endTimestamp"] = params["endTimestamp"]
                /\ frame.sent.params["after"] = params["after"]
                /\ frame.sent.params[stream.page_filter] = params[stream.page_filter]

\* C18 (step): inside one read_chunked the caller's mapping does not change
\* and the windows issued are only added to; once a window has failed, no
\* request is sent and no window is issued any more.
C18_Step ==
    /\ (InChunked /\ pc \notin {"idle", "done", "failed"}) =>
        /\ chunk'.given = chunk.given
        /\ chunk'.now_ts = chunk.now_ts
        /\ Len(chunk'.windows) >= Len(chunk.windows)
        /\ SubSeq(chunk'.windows, 1, Len(chunk.windows)) = chunk.windows
    /\ (InChunked /\ pc = "failed" /\ op' = "list" /\ pc' = "failed") =>
        /\ http' = http
        /\ chunk' = chunk
        /\ frame' = frame

\* C18: the windows of read_chunked are independent.
C18_WindowsIndependent == []C18_State /\ [][C18_Step]_vars

\* The first request of the second window was answered: it carried the
\* caller's limit, the timestamps of the second window and no continuation
\* param, and the caller's mapping holds the limit only.
C18_Witness ==
    /\ InChunked /\ pc = "returned" /\ ncalls = 1
    /\ Len(chunk.windows) = 2
    /\ chunk.given = [NoParams EXCEPT !["limit"] = Some(10)]
    /\ frame.sent.params =
           [NoParams EXCEPT !["limit"] = Some(10), !["properties"] = Some(<<>>),
                            !["hapikey"] = Some("key"),
                            !["startTimestamp"] = Some(chunk.windows[2].startTimestamp),
                            !["endTimestamp"] = Some(chunk.windows[2].endTimestamp)]

====
